---- MODULE Spec2Model ----
(***************************************************************************)
(* Model of the OpsOrch Elasticsearch log adapter:                         *)
(*   - cmd/logplugin/main.go : the JSON-RPC transport loop over stdin and  *)
(*     stdout, with its lazily built, process-wide provider;               *)
(*   - log/elastic_provider.go : New, parseConfig, Query, buildQuery,      *)
(*     buildFilterClause and normalizeHit.                                 *)
(* The Elasticsearch client (NewClient, Ping, Search) is an external       *)
(* library: each call is modelled by the outcomes the adapter's code       *)
(* distinguishes, plus "the call never returns".                           *)
(***************************************************************************)
EXTENDS Integers, Sequences, FiniteSets, TLC

(***************************************************************************)
(* Bounds of the model.                                                    *)
(***************************************************************************)
\* Number of request records the input stream may carry before it ends.
MaxRequests == 3

(***************************************************************************)
(* Untyped JSON values (Go's `any` after json decoding), tagged by the Go  *)
(* dynamic type a type assertion would see.                                *)
(***************************************************************************)
Absent == [t |-> "absent"]
Str(s) == [t |-> "string", s |-> s]
Num(n) == [t |-> "number", n |-> n]
List(xs) == [t |-> "list", items |-> xs]

\* v.(string) succeeded
IsStr(v) == v.t = "string"

\* An optional value: the empty sequence, or a sequence of one element.
None == <<>>
Some(x) == <<x>>

\* The nil provider / nil pointer.
Nil == [nil |-> TRUE]

RECURSIVE FilterStrings(_)
\* The strings among a list of untyped values, in order (the loop of parseConfig).
FilterStrings(xs) ==
    IF xs = <<>> THEN <<>>
    ELSE LET rest == FilterStrings(Tail(xs))
         IN IF IsStr(Head(xs)) THEN <<Head(xs).s>> \o rest ELSE rest

(***************************************************************************)
(* log/elastic_provider.go : parseConfig                                   *)
(* A config map is a record over the six keys the adapter reads; a key the *)
(* map does not hold has the value Absent.                                 *)
(***************************************************************************)
ConfigKeys == {"addresses", "username", "password", "apiKey", "cloudID", "indexPattern"}

DefaultIndexPattern == "logs-*"

\* cfg[key].(string), "" when the assertion fails
StringField(cfg, key) == IF IsStr(cfg[key]) THEN cfg[key].s ELSE ""

\* Mutant: an empty indexPattern is kept instead of the default.
parseConfigKeepsEmptyPattern(cfg) ==
    [ Addresses    |-> IF cfg["addresses"].t = "list"
                       THEN FilterStrings(cfg["addresses"].items)
                       ELSE <<>>,
      Username     |-> StringField(cfg, "username"),
      Password     |-> StringField(cfg, "password"),
      APIKey       |-> StringField(cfg, "apiKey"),
      CloudID      |-> StringField(cfg, "cloudID"),
      IndexPattern |-> IF IsStr(cfg["indexPattern"])
                       THEN cfg["indexPattern"].s
                       ELSE DefaultIndexPattern ]

parseConfig(cfg) ==
    [ Addresses    |-> IF cfg["addresses"].t = "list"
                       THEN FilterStrings(cfg["addresses"].items)
                       ELSE <<>>,
      Username     |-> StringField(cfg, "username"),
      Password     |-> StringField(cfg, "password"),
      APIKey       |-> StringField(cfg, "apiKey"),
      CloudID      |-> StringField(cfg, "cloudID"),
      IndexPattern |-> IF IsStr(cfg["indexPattern"]) /\ cfg["indexPattern"].s # ""
                       THEN cfg["indexPattern"].s
                       ELSE DefaultIndexPattern ]

(***************************************************************************)
(* log/elastic_provider.go : New, up to the liveness probe                 *)
(***************************************************************************)
ErrNoAddresses == "either 'addresses' or 'cloudID' must be provided"
ErrCreateClient == "failed to create Elasticsearch client: "
ErrConnect == "failed to connect to Elasticsearch: "

\* Mutant: the validation rejects a config that lacks either of the two.
ConfigRejectedEither(parsed) == Len(parsed.Addresses) = 0 \/ parsed.CloudID = ""

\* The validation at the top of New: TRUE when the config is rejected.
ConfigRejected(parsed) == Len(parsed.Addresses) = 0 /\ parsed.CloudID = ""

\* Mutant: username and password are passed on beside the API key.
esConfigBothCredentials(parsed) ==
    [ CloudID   |-> parsed.CloudID,
      Addresses |-> IF parsed.CloudID # "" THEN <<>> ELSE parsed.Addresses,
      APIKey    |-> parsed.APIKey,
      Username  |-> parsed.Username,
      Password  |-> parsed.Password ]

\* The elasticsearch.Config that New hands to elasticsearch.NewClient.
esConfig(parsed) ==
    [ CloudID   |-> parsed.CloudID,
      Addresses |-> IF parsed.CloudID # "" THEN <<>> ELSE parsed.Addresses,
      APIKey    |-> parsed.APIKey,
      Username  |-> IF parsed.APIKey = "" /\ (parsed.Username # "" \/ parsed.Password # "")
                    THEN parsed.Username ELSE "",
      Password  |-> IF parsed.APIKey = "" /\ (parsed.Username # "" \/ parsed.Password # "")
                    THEN parsed.Password ELSE "" ]

\* Inputs elasticsearch.NewClient cannot turn into a client: an address that
\* is no URL, a cloud identifier that does not decode.
UnparsableAddresses == {"http://[bad"}
UnparsableCloudIDs == {"not-a-cloud-id"}

\* elasticsearch.NewClient(esCfg) returned an error.
NewClientFails(esCfg) ==
    \/ esCfg.CloudID \in UnparsableCloudIDs
    \/ \E i \in 1..Len(esCfg.Addresses) : esCfg.Addresses[i] \in UnparsableAddresses

\* Mutant: the error of NewClient prints the whole client configuration.
NewClientErrorPrintsConfig(esCfg) ==
    "cannot create client: " \o esCfg.CloudID \o " " \o esCfg.APIKey
        \o " " \o esCfg.Username \o ":" \o esCfg.Password

\* The text of that error: it quotes the input that could not be parsed.
NewClientError(esCfg) ==
    IF esCfg.CloudID \in UnparsableCloudIDs
    THEN "cannot create client: cannot parse CloudID: unexpected format: " \o esCfg.CloudID
    ELSE "cannot create client: cannot parse url: "
         \o esCfg.Addresses[CHOOSE i \in 1..Len(esCfg.Addresses) :
                               /\ esCfg.Addresses[i] \in UnparsableAddresses
                               /\ \A j \in 1..(i - 1) :
                                    esCfg.Addresses[j] \notin UnparsableAddresses]

(***************************************************************************)
(* Timestamps.  A time.Time is its second and its sub-second part; the     *)
(* zero time.Time is second 0.  time.RFC3339 prints no fractional second.  *)
(***************************************************************************)
MaxTime == 2

ZeroTime == [sec |-> 0, nsec |-> 0]
IsZero(t) == t = ZeroTime

\* t.Format(time.RFC3339)
FormatRFC3339(t) == "T" \o ToString(t.sec) \o "Z"

\* The wire strings time.Parse(time.RFC3339, s) accepts, with their values: the
\* whole-second form Format prints and the fractional form "T<sec>.5Z".
WireTimes ==
    { <<FormatRFC3339([sec |-> n, nsec |-> 0]), [sec |-> n, nsec |-> 0]>> : n \in 0..MaxTime }
    \cup { <<"T" \o ToString(n) \o ".5Z", [sec |-> n, nsec |-> 5]>> : n \in 0..MaxTime }

\* time.Parse(time.RFC3339, s): Some(time), or None on a parse error.
ParseRFC3339(s) ==
    IF \E w \in WireTimes : w[1] = s
    THEN Some((CHOOSE w \in WireTimes : w[1] = s)[2])
    ELSE None

(***************************************************************************)
(* log/elastic_provider.go : buildFilterClause, buildQuery                 *)
(* A schema.LogQuery is                                                    *)
(*   [Start, End, Expression, Scope, Metadata, Limit]                      *)
(* with Expression None or Some([Search, SeverityIn, Filters]) and         *)
(* Metadata a function from keys to values.                                *)
(***************************************************************************)
DefaultSize == 1000

Term(field, value) == [term |-> [field |-> field, value |-> value]]

\* Mutant: "contains" matches the value as a prefix only.
buildFilterClausePrefixMatch(filter) ==
    CASE filter.Operator = "=" ->
           Some(Term(filter.Field, filter.Value))
      [] filter.Operator = "!=" ->
           Some([bool |-> [must_not |-> Term(filter.Field, filter.Value)]])
      [] filter.Operator = "contains" ->
           Some([wildcard |-> [field |-> filter.Field, value |-> filter.Value \o "*"]])
      [] filter.Operator = "regex" ->
           Some([regexp |-> [field |-> filter.Field, value |-> filter.Value]])
      [] OTHER -> None

\* Mutant: an operator that is not one of the four is treated as "=".
buildFilterClauseDefaultTerm(filter) ==
    CASE filter.Operator = "!=" ->
           Some([bool |-> [must_not |-> Term(filter.Field, filter.Value)]])
      [] filter.Operator = "contains" ->
           Some([wildcard |-> [field |-> filter.Field, value |-> "*" \o filter.Value \o "*"]])
      [] filter.Operator = "regex" ->
           Some([regexp |-> [field |-> filter.Field, value |-> filter.Value]])
      [] OTHER -> Some(Term(filter.Field, filter.Value))

\* None when the operator is not one of the four (Go: a nil map).
buildFilterClause(filter) ==
    CASE filter.Operator = "=" ->
           Some(Term(filter.Field, filter.Value))
      [] filter.Operator = "!=" ->
           Some([bool |-> [must_not |-> Term(filter.Field, filter.Value)]])
      [] filter.Operator = "contains" ->
           Some([wildcard |-> [field |-> filter.Field, value |-> "*" \o filter.Value \o "*"]])
      [] filter.Operator = "regex" ->
           Some([regexp |-> [field |-> filter.Field, value |-> filter.Value]])
      [] OTHER -> None

RECURSIVE FilterClauses(_)
\* The loop over query.Expression.Filters: nil clauses are skipped.
FilterClauses(filters) ==
    IF filters = <<>> THEN <<>>
    ELSE buildFilterClause(Head(filters)) \o FilterClauses(Tail(filters))

\* Mutant: the range clause is built only when both bounds are set.
RangeClauseBothSet(query) ==
    IF ~IsZero(query.Start) /\ ~IsZero(query.End)
    THEN << [range |-> [field |-> "@timestamp",
                        gte |-> Some(FormatRFC3339(query.Start)),
                        lte |-> Some(FormatRFC3339(query.End))]] >>
    ELSE <<>>

RangeClause(query) ==
    IF ~IsZero(query.Start) \/ ~IsZero(query.End)
    THEN << [range |-> [field |-> "@timestamp",
                        gte |-> IF ~IsZero(query.Start)
                                THEN Some(FormatRFC3339(query.Start)) ELSE None,
                        lte |-> IF ~IsZero(query.End)
                                THEN Some(FormatRFC3339(query.End)) ELSE None]] >>
    ELSE <<>>

ExpressionClauses(query) ==
    IF query.Expression = None THEN <<>>
    ELSE LET e == query.Expression[1] IN
         (IF e.Search # "" THEN << [query_string |-> [query |-> e.Search]] >> ELSE <<>>)
         \o (IF Len(e.SeverityIn) > 0
             THEN << [terms |-> [field |-> "severity", values |-> e.SeverityIn]] >>
             ELSE <<>>)
         \o FilterClauses(e.Filters)

ScopeClauses(query) ==
    (IF query.Scope.Service # "" THEN <<Term("service", query.Scope.Service)>> ELSE <<>>)
    \o (IF query.Scope.Environment # ""
        THEN <<Term("environment", query.Scope.Environment)>> ELSE <<>>)
    \o (IF query.Scope.Team # "" THEN <<Term("team", query.Scope.Team)>> ELSE <<>>)

\* The orders in which Go may range over a map with key set S.
MapOrders(S) ==
    { o \in [1..Cardinality(S) -> S] : \A i, j \in 1..Cardinality(S) : o[i] = o[j] => i = j }

\* The loop over query.Metadata, ranging in the order `order`.
MetadataClauses(query, order) ==
    [i \in 1..Len(order) |-> Term(order[i], query.Metadata[order[i]])]

\* Mutant: the limit is not applied; every document asks for the default size.
buildQueryIgnoresLimit(query, order) ==
    [ query |-> [bool |-> [must |-> RangeClause(query) \o ExpressionClauses(query)
                                    \o ScopeClauses(query) \o MetadataClauses(query, order)]],
      sort  |-> << [field |-> "@timestamp", order |-> "desc"] >>,
      size  |-> DefaultSize ]

\* Mutant: only a negative limit gets the default size; zero is passed on.
buildQuerySizeZero(query, order) ==
    [ query |-> [bool |-> [must |-> RangeClause(query) \o ExpressionClauses(query)
                                    \o ScopeClauses(query) \o MetadataClauses(query, order)]],
      sort  |-> << [field |-> "@timestamp", order |-> "desc"] >>,
      size  |-> IF query.Limit >= 0 THEN query.Limit ELSE DefaultSize ]

\* Mutant: the metadata loop runs before the other clauses are appended.
buildQueryMetadataFirst(query, order) ==
    [ query |-> [bool |-> [must |-> MetadataClauses(query, order) \o RangeClause(query)
                                    \o ExpressionClauses(query) \o ScopeClauses(query)]],
      sort  |-> << [field |-> "@timestamp", order |-> "desc"] >>,
      size  |-> IF query.Limit > 0 THEN query.Limit ELSE DefaultSize ]

\* order: the order in which this call ranges over query.Metadata.
buildQuery(query, order) ==
    [ query |-> [bool |-> [must |-> RangeClause(query) \o ExpressionClauses(query)
                                    \o ScopeClauses(query) \o MetadataClauses(query, order)]],
      sort  |-> << [field |-> "@timestamp", order |-> "desc"] >>,
      size  |-> IF query.Limit > 0 THEN query.Limit ELSE DefaultSize ]

(***************************************************************************)
(* log/elastic_provider.go : normalizeHit                                  *)
(* An esHit is [Index, ID, Score, Source], Source a function from field    *)
(* names to untyped values.                                                *)
(***************************************************************************)
PromotedKeys == {"@timestamp", "message", "severity", "level", "service"}

\* source[key], Absent when the map has no such key
Get(source, key) == IF key \in DOMAIN source THEN source[key] ELSE Absent

\* Mutant: the document id is also copied into Fields.
normalizeHitIdInFields(hit) ==
    LET source == hit.Source
        ts  == Get(source, "@timestamp")
        sev == Get(source, "severity")
        lvl == Get(source, "level")
        rest == DOMAIN source \ PromotedKeys
    IN [ Metadata  |-> [_index |-> hit.Index, _id |-> hit.ID, _score |-> hit.Score],
         Timestamp |-> IF IsStr(ts) /\ ParseRFC3339(ts.s) # None
                       THEN ParseRFC3339(ts.s)[1] ELSE ZeroTime,
         Message   |-> StringField([k \in {"message"} |-> Get(source, "message")], "message"),
         Severity  |-> IF IsStr(sev) THEN sev.s
                       ELSE IF IsStr(lvl) THEN lvl.s ELSE "",
         Service   |-> StringField([k \in {"service"} |-> Get(source, "service")], "service"),
         Labels    |-> [k \in {x \in rest : IsStr(source[x])} |-> source[k].s],
         Fields    |-> [k \in rest \cup {"_id"} |->
                          IF k = "_id" THEN Str(hit.ID) ELSE source[k]] ]

\* Mutant: a string-valued field goes to Labels only, the others to Fields only.
normalizeHitDisjoint(hit) ==
    LET source == hit.Source
        ts  == Get(source, "@timestamp")
        sev == Get(source, "severity")
        lvl == Get(source, "level")
        rest == DOMAIN source \ PromotedKeys
    IN [ Metadata  |-> [_index |-> hit.Index, _id |-> hit.ID, _score |-> hit.Score],
         Timestamp |-> IF IsStr(ts) /\ ParseRFC3339(ts.s) # None
                       THEN ParseRFC3339(ts.s)[1] ELSE ZeroTime,
         Message   |-> StringField([k \in {"message"} |-> Get(source, "message")], "message"),
         Severity  |-> IF IsStr(sev) THEN sev.s
                       ELSE IF IsStr(lvl) THEN lvl.s ELSE "",
         Service   |-> StringField([k \in {"service"} |-> Get(source, "service")], "service"),
         Labels    |-> [k \in {x \in rest : IsStr(source[x])} |-> source[k].s],
         Fields    |-> [k \in {x \in rest : ~IsStr(source[x])} |-> source[k]] ]

normalizeHit(hit) ==
    LET source == hit.Source
        ts  == Get(source, "@timestamp")
        sev == Get(source, "severity")
        lvl == Get(source, "level")
        rest == DOMAIN source \ PromotedKeys
    IN [ Metadata  |-> [_index |-> hit.Index, _id |-> hit.ID, _score |-> hit.Score],
         Timestamp |-> IF IsStr(ts) /\ ParseRFC3339(ts.s) # None
                       THEN ParseRFC3339(ts.s)[1] ELSE ZeroTime,
         Message   |-> StringField([k \in {"message"} |-> Get(source, "message")], "message"),
         Severity  |-> IF IsStr(sev) THEN sev.s
                       ELSE IF IsStr(lvl) THEN lvl.s ELSE "",
         Service   |-> StringField([k \in {"service"} |-> Get(source, "service")], "service"),
         Labels    |-> [k \in {x \in rest : IsStr(source[x])} |-> source[k].s],
         Fields    |-> [k \in rest |-> source[k]] ]

(***************************************************************************)
(* log/elastic_provider.go : Query                                         *)
(* The outcome of p.client.Search as the code distinguishes it.            *)
(***************************************************************************)
ErrQueryFailed == "elasticsearch query failed: "
ErrReturnedError == "elasticsearch returned error: "
ErrParseResponse == "failed to parse response: "

RECURSIVE NormalizeDated(_)
\* Mutant: a hit without a string @timestamp is skipped.
NormalizeDated(hits) ==
    IF hits = <<>> THEN <<>>
    ELSE (IF IsStr(Get(Head(hits).Source, "@timestamp"))
          THEN <<normalizeHit(Head(hits))>> ELSE <<>>) \o NormalizeDated(Tail(hits))

\* The entries of a successful Query: one per hit, in the backend's order.
Normalize(hits) == [i \in 1..Len(hits) |-> normalizeHit(hits[i])]

\* What Query returns once Search has returned `outcome`: [res, err], err None
\* for a nil error.
QueryReturn(outcome) ==
    CASE outcome.kind = "transport_error" ->
           [res |-> <<>>, err |-> Some(ErrQueryFailed \o outcome.detail)]
      [] outcome.kind = "error_status" ->
           [res |-> <<>>, err |-> Some(ErrReturnedError \o outcome.detail)]
      [] outcome.kind = "bad_body" ->
           [res |-> <<>>, err |-> Some(ErrParseResponse \o outcome.detail)]
      [] outcome.kind = "ok" ->
           [res |-> Normalize(outcome.hits), err |-> None]

(***************************************************************************)
(* cmd/logplugin/main.go : rpcResponse, write, writeErr                    *)
(* An rpcResponse is [Result, Error]: Result None for a nil interface,     *)
(* Error "" for the empty string.  Both fields are `omitempty`, so the     *)
(* record written holds a field only when it is not empty.                 *)
(***************************************************************************)
\* Mutant: the Error field is written even when empty (no `omitempty`).
EncodeErrorAlways(resp) ==
    [ result |-> resp.Result, error |-> Some(resp.Error) ]

\* enc.Encode(resp): the JSON record written, each field None when omitted.
Encode(resp) ==
    [ result |-> resp.Result,
      error  |-> IF resp.Error = "" THEN None ELSE Some(resp.Error) ]

\* writeErr(enc, err): err is the error's message.
writeErr(msg) == Encode([Result |-> None, Error |-> msg])

\* write(enc, result, err): err is None for nil, else Some(message).
write(result, err) ==
    IF err # None THEN writeErr(err[1])
    ELSE Encode([Result |-> Some(result), Error |-> ""])

(***************************************************************************)
(* Inputs of the transport loop.                                           *)
(***************************************************************************)
NoConfig == [k \in ConfigKeys |-> Absent]

CfgLocal == [NoConfig EXCEPT !["addresses"] = List(<<Str("http://localhost:9200")>>),
                             !["username"] = Str("elastic"),
                             !["password"] = Str("changeme")]
CfgCloud == [NoConfig EXCEPT !["cloudID"] = Str("my-cloud:dXMtY2VudHJhbDE"),
                             !["apiKey"] = Str("id:key"),
                             !["indexPattern"] = Str("app-*")]
CfgNumericAddresses == [NoConfig EXCEPT !["addresses"] = List(<<Num(9200)>>)]
CfgBadURL == [NoConfig EXCEPT !["addresses"] = List(<<Str("http://[bad")>>)]
CfgLocalBadCloud == [CfgLocal EXCEPT !["cloudID"] = Str("not-a-cloud-id")]

Configs == {NoConfig, CfgLocal, CfgCloud, CfgNumericAddresses, CfgBadURL, CfgLocalBadCloud}

NoScope == [Service |-> "", Environment |-> "", Team |-> ""]

\* {"limit": 1}
QueryLimit1 ==
    [ Start |-> ZeroTime, End |-> ZeroTime, Expression |-> None, Scope |-> NoScope,
      Metadata |-> <<>>, Limit |-> 1 ]

\* A query using every part of the builder, one filter with an unknown operator.
QueryFull ==
    [ Start |-> [sec |-> 1, nsec |-> 0], End |-> ZeroTime,
      Expression |-> Some([ Search |-> "error OR warning",
                            SeverityIn |-> <<"error">>,
                            Filters |-> << [Field |-> "host", Operator |-> "=", Value |-> "a"],
                                           [Field |-> "host", Operator |-> "like", Value |-> "b"] >> ]),
      Scope |-> [Service |-> "api", Environment |-> "", Team |-> "sre"],
      Metadata |-> [k \in {"region"} |-> Str("eu")],
      Limit |-> 0 ]

\* A payload is the raw JSON of the request: `ok` tells whether json.Unmarshal
\* into schema.LogQuery succeeds, `query` is what it decodes to.
Payloads ==
    { [ok |-> FALSE, query |-> QueryLimit1],
      [ok |-> TRUE, query |-> QueryLimit1],
      [ok |-> TRUE, query |-> QueryFull] }

Methods == {"log.query", "log.tail"}

\* The request records the input stream may carry.
Requests == [Method : Methods, Config : Configs, Payload : Payloads]

ErrUnmarshalPayload == "json: cannot unmarshal string into Go value of type schema.LogQuery"
ErrUnknownMethod == "unknown method: "

\* Errors of dec.Decode other than io.EOF.
DecodeErrors == {"invalid character 'x' looking for beginning of value", "unexpected EOF"}

HitA ==
    [ Index |-> "logs-2024", ID |-> "a", Score |-> 1,
      Source |-> [k \in {"@timestamp", "message", "level", "host", "code"} |->
                    CASE k = "@timestamp" -> Str("T1Z")
                      [] k = "message" -> Str("boom")
                      [] k = "level" -> Str("warn")
                      [] k = "host" -> Str("web-1")
                      [] k = "code" -> Num(500)] ]
HitB ==
    [ Index |-> "logs-2024", ID |-> "b", Score |-> 2,
      Source |-> [k \in {"@timestamp", "severity", "level", "service"} |->
                    CASE k = "@timestamp" -> Str("yesterday")
                      [] k = "severity" -> Str("error")
                      [] k = "level" -> Str("info")
                      [] k = "service" -> Str("api")] ]

\* The documents that may match a search, in the order of the search's sort.
HitLists == { <<>>, <<HitA>>, <<HitB, HitA>> }

\* How a call to the backend may end: the outcomes the code tells apart, and
\* "hang": the backend accepts the request and never answers.
PingOutcomes ==
    { [kind |-> "ok"], [kind |-> "error_status"], [kind |-> "hang"],
      [kind |-> "transport_error", detail |-> "dial tcp: connection refused"] }

SearchOutcomes ==
    { [kind |-> "ok", matching |-> h] : h \in HitLists }
    \cup { [kind |-> "transport_error", detail |-> "dial tcp: connection refused"],
           [kind |-> "error_status", detail |-> "[500 Internal Server Error]"],
           [kind |-> "bad_body", detail |-> "invalid character '<'"],
           [kind |-> "hang"] }

\* context.Background(): no deadline, never cancelled.
Background == [canExpire |-> FALSE]

\* <-ctx.Done() can fire
CtxDone(ctx) == ctx.canExpire

(***************************************************************************)
(* cmd/logplugin/main.go : state of the process                            *)
(***************************************************************************)
VARIABLES
    pc,         \* where main is: "read", "ensure", "ping", "dispatch", "search", "exit"
    req,        \* the request being handled (main's req)
    decoded,    \* number of requests dec.Decode has returned
    provider,   \* the package variable `provider`: Nil or an ElasticProvider
    prov,       \* main's local `prov`
    call,       \* the backend call in flight
    exitCause,  \* why main returned: "" while running, "eof", "decode_error"
    out,        \* the response records written to stdout, in order
    outFor,     \* for each record of out, the number of the request it answers (0: none)
    newCalls,   \* one entry per call of adapter.New: the request it serves, its config,
                \* the stage it reached and how its Ping ended ("none": no Ping returned)
    searches    \* one entry per call of p.client.Search: the number of the request it serves

vars == <<pc, req, decoded, provider, prov, call, exitCause, out, outFor, newCalls, searches>>

NoCall == [kind |-> "none"]

Init ==
    /\ pc = "read"
    /\ req = Nil
    /\ decoded = 0
    /\ provider = Nil
    /\ prov = Nil
    /\ call = NoCall
    /\ exitCause = ""
    /\ out = <<>>
    /\ outFor = <<>>
    /\ newCalls = <<>>
    /\ searches = <<>>

\* Append one response record for the current request and go back to the top
\* of the loop, where the iteration's locals (req, prov) are gone.
Respond(record) ==
    /\ out' = Append(out, record)
    /\ outFor' = Append(outFor, decoded)
    /\ pc' = "read"
    /\ req' = Nil
    /\ prov' = Nil

\* dec.Decode(&req) returned a request.
DecodeRequest(r) ==
    /\ pc = "read"
    /\ decoded < MaxRequests
    /\ req' = r
    /\ decoded' = decoded + 1
    /\ pc' = "ensure"
    /\ UNCHANGED <<provider, prov, call, exitCause, out, outFor, newCalls, searches>>

\* Mutant: io.EOF is reported like any other decode error.
DecodeEOFAsError ==
    /\ pc = "read"
    /\ out' = Append(out, writeErr("EOF"))
    /\ outFor' = Append(outFor, 0)
    /\ pc' = "exit"
    /\ exitCause' = "eof"
    /\ UNCHANGED <<req, decoded, provider, prov, call, newCalls, searches>>

\* dec.Decode returned io.EOF: main returns.
DecodeEOF ==
    /\ pc = "read"
    /\ pc' = "exit"
    /\ exitCause' = "eof"
    /\ UNCHANGED <<req, decoded, provider, prov, call, out, outFor, newCalls, searches>>

\* dec.Decode returned another error: one error record, then main returns.
DecodeFail(msg) ==
    /\ pc = "read"
    /\ out' = Append(out, writeErr(msg))
    /\ outFor' = Append(outFor, 0)
    /\ pc' = "exit"
    /\ exitCause' = "decode_error"
    /\ UNCHANGED <<req, decoded, provider, prov, call, newCalls, searches>>

\* Mutant: ensureProvider never takes the cached provider.
ProviderCachedNever == FALSE

\* ensureProvider's test `provider != nil`.
ProviderCached == provider # Nil

\* Mutant: the config of the request is validated although a provider exists.
EnsureProviderReuseValidates ==
    /\ pc = "ensure"
    /\ ProviderCached
    /\ IF ConfigRejected(parseConfig(req.Config))
       THEN Respond(writeErr(ErrNoAddresses))
       ELSE /\ prov' = provider
            /\ pc' = "dispatch"
            /\ UNCHANGED <<req, out, outFor>>
    /\ UNCHANGED <<decoded, provider, call, exitCause, newCalls, searches>>

\* ensureProvider with the provider already built.
EnsureProviderReuse ==
    /\ pc = "ensure"
    /\ ProviderCached
    /\ prov' = provider
    /\ pc' = "dispatch"
    /\ UNCHANGED <<req, decoded, provider, call, exitCause, out, outFor, newCalls, searches>>

\* The entry of newCalls for a call of New made now.
NewCall(stage) == [req |-> decoded, cfg |-> req.Config, stage |-> stage, probe |-> "none"]

\* Mutant: the method is examined first; an unknown method is answered without
\* a call of New.
EnsureProviderNewMethodFirst ==
    /\ pc = "ensure"
    /\ ~ProviderCached
    /\ LET parsed == parseConfig(req.Config)
           esCfg == esConfig(parsed)
       IN IF req.Method # "log.query"
          THEN /\ Respond(writeErr(ErrUnknownMethod \o req.Method))
               /\ UNCHANGED <<call, newCalls>>
          ELSE IF ConfigRejected(parsed)
          THEN /\ Respond(writeErr(ErrNoAddresses))
               /\ newCalls' = Append(newCalls, NewCall("config_error"))
               /\ UNCHANGED call
          ELSE IF NewClientFails(esCfg)
          THEN /\ Respond(writeErr(ErrCreateClient \o NewClientError(esCfg)))
               /\ newCalls' = Append(newCalls, NewCall("client_error"))
               /\ UNCHANGED call
          ELSE \E o \in PingOutcomes :
               /\ call' = [kind |-> "ping", cfg |-> parsed,
                           client |-> [id |-> Len(newCalls) + 1, cfg |-> esCfg],
                           outcome |-> o]
               /\ newCalls' = Append(newCalls, NewCall("probing"))
               /\ pc' = "ping"
               /\ UNCHANGED <<req, prov, out, outFor>>
    /\ UNCHANGED <<decoded, provider, exitCause, searches>>

\* ensureProvider with no provider: adapter.New(req.Config), up to the start
\* of client.Ping().
EnsureProviderNew ==
    /\ pc = "ensure"
    /\ ~ProviderCached
    /\ LET parsed == parseConfig(req.Config)
           esCfg == esConfig(parsed)
       IN IF ConfigRejected(parsed)
          THEN /\ Respond(writeErr(ErrNoAddresses))
               /\ newCalls' = Append(newCalls, NewCall("config_error"))
               /\ UNCHANGED call
          ELSE IF NewClientFails(esCfg)
          THEN /\ Respond(writeErr(ErrCreateClient \o NewClientError(esCfg)))
               /\ newCalls' = Append(newCalls, NewCall("client_error"))
               /\ UNCHANGED call
          ELSE \E o \in PingOutcomes :
               /\ call' = [kind |-> "ping", cfg |-> parsed,
                           client |-> [id |-> Len(newCalls) + 1, cfg |-> esCfg],
                           outcome |-> o]
               /\ newCalls' = Append(newCalls, NewCall("probing"))
               /\ pc' = "ping"
               /\ UNCHANGED <<req, prov, out, outFor>>
    /\ UNCHANGED <<decoded, provider, exitCause, searches>>

\* Mutant: New ignores the error of Ping.
PingFailedIgnored(outcome) == FALSE

\* Whether New treats the returned Ping as a failure: only `err` is looked at.
PingFailed(outcome) == outcome.kind = "transport_error"

\* Mutant: a failed probe ends the loop (return where main has continue).
PingReturnFatal ==
    /\ pc = "ping"
    /\ call.outcome.kind # "hang"
    /\ IF PingFailed(call.outcome)
       THEN /\ out' = Append(out, writeErr(ErrConnect \o call.outcome.detail))
            /\ outFor' = Append(outFor, decoded)
            /\ pc' = "exit"
            /\ newCalls' = [newCalls EXCEPT ![Len(newCalls)].stage = "probe_failed",
                                             ![Len(newCalls)].probe = call.outcome.kind]
            /\ UNCHANGED <<provider, prov, req>>
       ELSE /\ provider' = [cfg |-> call.cfg, client |-> call.client]
            /\ prov' = provider'
            /\ newCalls' = [newCalls EXCEPT ![Len(newCalls)].stage = "ready",
                                             ![Len(newCalls)].probe = call.outcome.kind]
            /\ pc' = "dispatch"
            /\ UNCHANGED <<req, out, outFor>>
    /\ call' = NoCall
    /\ UNCHANGED <<decoded, exitCause, searches>>

\* client.Ping() returns; New and ensureProvider finish.  Ping takes no
\* context, so it returns only when the backend answers or the connection fails.
PingReturn ==
    /\ pc = "ping"
    /\ call.outcome.kind # "hang"
    /\ IF PingFailed(call.outcome)
       THEN /\ Respond(writeErr(ErrConnect \o call.outcome.detail))
            /\ newCalls' = [newCalls EXCEPT ![Len(newCalls)].stage = "probe_failed",
                                             ![Len(newCalls)].probe = call.outcome.kind]
            /\ UNCHANGED provider
       ELSE /\ provider' = [cfg |-> call.cfg, client |-> call.client]
            /\ prov' = provider'
            /\ newCalls' = [newCalls EXCEPT ![Len(newCalls)].stage = "ready",
                                             ![Len(newCalls)].probe = call.outcome.kind]
            /\ pc' = "dispatch"
            /\ UNCHANGED <<req, out, outFor>>
    /\ call' = NoCall
    /\ UNCHANGED <<decoded, exitCause, searches>>

\* Mutant: an undecodable payload ends the loop (return where main has continue).
DispatchQueryFatal ==
    /\ pc = "dispatch"
    /\ req.Method = "log.query"
    /\ IF ~req.Payload.ok
       THEN /\ out' = Append(out, writeErr(ErrUnmarshalPayload))
            /\ outFor' = Append(outFor, decoded)
            /\ pc' = "exit"
            /\ UNCHANGED <<req, prov, call, searches>>
       ELSE \E order \in MapOrders(DOMAIN req.Payload.query.Metadata), o \in SearchOutcomes :
            /\ call' = [kind |-> "search", ctx |-> Background,
                        client |-> prov.client,
                        index |-> prov.cfg.IndexPattern,
                        body |-> buildQuery(req.Payload.query, order),
                        outcome |-> o]
            /\ pc' = "search"
            /\ UNCHANGED <<req, prov, out, outFor>>
            /\ searches' = Append(searches, decoded)
    /\ UNCHANGED <<decoded, provider, exitCause, newCalls>>

\* case "log.query": decode the payload, then Query up to the start of Search.
DispatchQuery ==
    /\ pc = "dispatch"
    /\ req.Method = "log.query"
    /\ IF ~req.Payload.ok
       THEN /\ Respond(writeErr(ErrUnmarshalPayload))
            /\ UNCHANGED <<call, searches>>
       ELSE \E order \in MapOrders(DOMAIN req.Payload.query.Metadata), o \in SearchOutcomes :
            /\ call' = [kind |-> "search", ctx |-> Background,
                        client |-> prov.client,
                        index |-> prov.cfg.IndexPattern,
                        body |-> buildQuery(req.Payload.query, order),
                        outcome |-> o]
            /\ pc' = "search"
            /\ UNCHANGED <<req, prov, out, outFor>>
            /\ searches' = Append(searches, decoded)
    /\ UNCHANGED <<decoded, provider, exitCause, newCalls>>

\* Mutant: the default case writes nothing.
DispatchUnknownSilent ==
    /\ pc = "dispatch"
    /\ req.Method # "log.query"
    /\ pc' = "read"
    /\ req' = Nil
    /\ prov' = Nil
    /\ UNCHANGED <<decoded, provider, call, exitCause, out, outFor, newCalls, searches>>

\* default: unknown method.
DispatchUnknown ==
    /\ pc = "dispatch"
    /\ req.Method # "log.query"
    /\ Respond(writeErr(ErrUnknownMethod \o req.Method))
    /\ UNCHANGED <<decoded, provider, call, exitCause, newCalls, searches>>

\* The hits of the backend's answer to `body`: the first body.size of the
\* matching documents (the backend returns at most `size` hits).
BackendHits(body, matching) ==
    SubSeq(matching, 1, IF body.size < Len(matching) THEN body.size ELSE Len(matching))

\* What Search returns: the backend's answer, or the context's error when the
\* backend hangs and the context ends.
SearchResult(c) ==
    CASE c.outcome.kind = "hang" ->
           [kind |-> "transport_error", detail |-> "context deadline exceeded"]
      [] c.outcome.kind = "ok" ->
           [kind |-> "ok", hits |-> BackendHits(c.body, c.outcome.matching)]
      [] OTHER -> c.outcome

\* Mutant: a failed query drops the provider so that the next request rebuilds it.
SearchReturnResetOnError ==
    /\ pc = "search"
    /\ call.outcome.kind # "hang" \/ CtxDone(call.ctx)
    /\ LET r == QueryReturn(SearchResult(call))
       IN /\ Respond(write(r.res, r.err))
          /\ provider' = IF r.err # None THEN Nil ELSE provider
    /\ call' = NoCall
    /\ UNCHANGED <<decoded, exitCause, newCalls, searches>>

\* Mutant: a search that failed in transport is sent once more.
SearchReturnRetry ==
    /\ pc = "search"
    /\ call.outcome.kind # "hang" \/ CtxDone(call.ctx)
    /\ IF /\ call.outcome.kind = "transport_error"
          /\ Len(SelectSeq(searches, LAMBDA n : n = decoded)) < 2
       THEN /\ searches' = Append(searches, decoded)
            /\ call' = [call EXCEPT !.outcome = [kind |-> "ok", matching |-> <<>>]]
            /\ UNCHANGED <<pc, req, prov, out, outFor>>
       ELSE /\ LET r == QueryReturn(SearchResult(call))
               IN Respond(write(r.res, r.err))
            /\ call' = NoCall
            /\ UNCHANGED searches
    /\ UNCHANGED <<decoded, provider, exitCause, newCalls>>

\* p.client.Search returns; Query finishes and main writes the response.
SearchReturn ==
    /\ pc = "search"
    /\ call.outcome.kind # "hang" \/ CtxDone(call.ctx)
    /\ LET r == QueryReturn(SearchResult(call))
       IN Respond(write(r.res, r.err))
    /\ call' = NoCall
    /\ UNCHANGED <<decoded, provider, exitCause, newCalls, searches>>

Next ==
    \/ \E r \in Requests : DecodeRequest(r)
    \/ DecodeEOF
    \/ \E msg \in DecodeErrors : DecodeFail(msg)
    \/ EnsureProviderReuse
    \/ EnsureProviderNew
    \/ PingReturn
    \/ DispatchQuery
    \/ DispatchUnknown
    \/ SearchReturn

Spec == Init /\ [][Next]_vars

\* The loop is one thread that runs whenever it can: every step that is
\* enabled is eventually taken.
FairSpec == Spec /\ WF_vars(Next)

(***************************************************************************)
(* Properties of the transport loop.                                       *)
(***************************************************************************)
\* main is between reading a request and writing its response.
Handling == pc \in {"ensure", "ping", "dispatch", "search"}

\* A record that carries an error and no result.
IsErrorRecord(r) == r.error # None /\ r.result = None

\* A record that carries a result and no error.
IsResultRecord(r) == r.result # None /\ r.error = None

\* The step wrote exactly one more record, for the request being handled.
WroteOne == /\ Len(out') = Len(out) + 1
            /\ SubSeq(out', 1, Len(out)) = out
            /\ outFor' = Append(outFor, decoded)

\* C1: whenever the loop is about to read, every decoded request has exactly
\* one response and the responses are in request order; while a request is
\* being handled, exactly the earlier requests have been answered.
C1_OneResponsePerRequestInOrder ==
    /\ pc = "read" => /\ Len(out) = decoded
                      /\ outFor = [i \in 1..decoded |-> i]
    /\ Handling => /\ Len(out) = decoded - 1
                   /\ outFor = [i \in 1..(decoded - 1) |-> i]

C1_Witness ==
    /\ pc = "read"
    /\ decoded = 3
    /\ IsErrorRecord(out[1])
    /\ IsResultRecord(out[2])
    /\ out[3].error = Some(ErrUnknownMethod \o "log.tail")

\* C2: once ensureProvider has stored a provider, no step changes the handle,
\* no step calls adapter.New again, and every request dispatched afterwards is
\* served by that provider and its client.
C2_ProviderSingleAssignment ==
    /\ [][provider # Nil => /\ provider' = provider
                            /\ newCalls' = newCalls]_vars
    /\ [](pc \in {"dispatch", "search"} => provider # Nil /\ prov = provider)
    /\ [](pc = "search" => call.client = provider.client)
    /\ [](provider # Nil => /\ newCalls[Len(newCalls)].stage = "ready"
                            /\ provider.client.id = Len(newCalls))

C2_Witness ==
    /\ provider # Nil
    /\ pc = "search"
    /\ decoded = 3
    /\ Len(newCalls) = 1
    /\ newCalls[1].req = 1
    /\ out[2].error = Some(ErrQueryFailed \o "dial tcp: connection refused")

\* A step in which ensureProvider returned an error.
ConstructionFailedStep ==
    /\ provider = Nil
    /\ pc \in {"ensure", "ping"}
    /\ pc' \notin {"ping", "dispatch"}

\* C3: a step in which provider construction fails writes one error record for
\* that request, leaves the provider nil and returns to reading; and whenever
\* a request finds the provider nil, adapter.New is called with that request's
\* own config.
C3_FailedConstructionIsRetried ==
    /\ [][ConstructionFailedStep => /\ WroteOne
                                    /\ IsErrorRecord(out'[Len(out')])
                                    /\ provider' = Nil
                                    /\ pc' = "read"
                                    /\ exitCause' = ""]_vars
    /\ [][pc = "ensure" /\ provider = Nil =>
            /\ Len(newCalls') = Len(newCalls) + 1
            /\ newCalls'[Len(newCalls')].cfg = req.Config
            /\ newCalls'[Len(newCalls')].req = decoded]_vars

C3_Witness ==
    /\ Len(newCalls) = 3
    /\ newCalls[1].stage = "config_error" /\ newCalls[1].cfg = NoConfig
    /\ newCalls[2].stage = "probe_failed" /\ newCalls[2].cfg = CfgLocal
    /\ newCalls[3].stage = "ready" /\ newCalls[3].cfg = CfgCloud
    /\ newCalls[3].req = 3
    /\ provider # Nil /\ provider.cfg = parseConfig(CfgCloud)
    /\ IsErrorRecord(out[1]) /\ IsErrorRecord(out[2])

\* Search is returning a failure to Query: a transport error, an error status
\* or a body that does not parse.
FailedQueryStep ==
    /\ pc = "search"
    /\ call.outcome.kind \in {"transport_error", "error_status", "bad_body"}

\* The message Query returns for the failure in flight.
QueryErrorText ==
    CASE call.outcome.kind = "transport_error" -> ErrQueryFailed \o call.outcome.detail
      [] call.outcome.kind = "error_status" -> ErrReturnedError \o call.outcome.detail
      [] call.outcome.kind = "bad_body" -> ErrParseResponse \o call.outcome.detail

\* C4: a failed Query writes one error record for its request and changes
\* nothing of the provider: the handle, its client and its config stay, no new
\* provider is built, the loop returns to reading, and the queries that follow
\* go to the same client and index pattern.
C4_FailedQueryKeepsProvider ==
    /\ [][FailedQueryStep => /\ WroteOne
                             /\ out'[Len(out')] = [result |-> None, error |-> Some(QueryErrorText)]
                             /\ provider # Nil
                             /\ provider' = provider
                             /\ newCalls' = newCalls
                             /\ pc' = "read"]_vars
    /\ [](pc = "search" => /\ call.client = provider.client
                           /\ call.index = provider.cfg.IndexPattern)

C4_Witness ==
    /\ pc = "read"
    /\ decoded = 3
    /\ Len(newCalls) = 1
    /\ provider # Nil /\ provider.client.id = 1
    /\ out[1].error = Some(ErrReturnedError \o "[500 Internal Server Error]")
    /\ out[2].error = Some(ErrParseResponse \o "invalid character '<'")
    /\ IsResultRecord(out[3]) /\ Len(out[3].result[1]) = 2

\* The request being handled is failing in this step: unknown method,
\* undecodable payload, provider build failure or query failure.
RequestFailsStep ==
    \/ pc = "dispatch" /\ req.Method # "log.query"
    \/ pc = "dispatch" /\ req.Method = "log.query" /\ ~req.Payload.ok
    \/ ConstructionFailedStep
    \/ FailedQueryStep

\* C5: no step taken while a request is handled ends the loop, and each of the
\* four kinds of failure writes exactly one error record for the request and
\* returns the loop to reading.
C5_HandlingFailuresAreNotFatal ==
    /\ [][Handling => pc' # "exit" /\ exitCause' = ""]_vars
    /\ [][RequestFailsStep => /\ WroteOne
                              /\ IsErrorRecord(out'[Len(out')])
                              /\ pc' = "read"]_vars

C5_Witness ==
    /\ pc = "ensure"
    /\ decoded = 3
    /\ out[1].error = Some(ErrUnknownMethod \o "log.tail")
    /\ out[2].error = Some(ErrUnmarshalPayload)
    /\ newCalls[1].stage = "ready"

\* C6: the loop ends only from the read position; on end-of-stream it writes
\* nothing, on another decode failure it writes exactly one error record; once
\* ended it takes no further step.  So at exit after end-of-stream there is one
\* record per decoded request, and after a decode failure one more.
C6_LoopEndsOnlyOnDecodeOutcome ==
    /\ [][pc' = "exit" => /\ pc = "read"
                          /\ exitCause' \in {"eof", "decode_error"}
                          /\ exitCause' = "eof" => out' = out
                          /\ exitCause' = "decode_error" =>
                               /\ Len(out') = Len(out) + 1
                               /\ SubSeq(out', 1, Len(out)) = out
                               /\ IsErrorRecord(out'[Len(out')])]_vars
    /\ [][pc # "exit"]_vars
    /\ [](pc = "exit" /\ exitCause = "eof" => Len(out) = decoded)
    /\ [](pc = "exit" /\ exitCause = "decode_error" => Len(out) = decoded + 1)

C6_Witness ==
    /\ pc = "exit"
    /\ exitCause = "eof"
    /\ decoded = 1
    /\ Len(out) = 1
    /\ IsResultRecord(out[1])
    /\ Len(out[1].result[1]) = 1

\* C7: a slow backend cannot hang the loop: a request whose query is in flight
\* at the backend is eventually answered (with a result or an error), also
\* when the backend never responds, and the loop returns to reading.
C7_QueryInFlightEventuallyAnswered == (pc = "search") ~> (pc = "read")

\* C8: every record written carries exactly one of result and error; a
\* successful query writes its entries as result (also when there are none)
\* and no error, and every other record carries an error and no result.
C8_ExactlyOneOfResultAndError ==
    /\ [](\A i \in 1..Len(out) : (out[i].result = None) # (out[i].error = None))
    /\ [][pc = "search" /\ call.outcome.kind = "ok" =>
            out' = Append(out, [result |-> Some(Normalize(SearchResult(call).hits)),
                                error |-> None])]_vars
    /\ [][out' # out /\ ~(pc = "search" /\ call.outcome.kind = "ok") =>
            /\ Len(out') = Len(out) + 1
            /\ IsErrorRecord(out'[Len(out')])]_vars

C8_Witness ==
    /\ Len(out) = 3
    /\ out[1] = [result |-> Some(<<>>), error |-> None]
    /\ IsErrorRecord(out[2])
    /\ IsResultRecord(out[3]) /\ Len(out[3].result[1]) = 2

\* Config c, as parsed, has no address and no cloud identifier.
NoEndpoint(c) == Len(parseConfig(c).Addresses) = 0 /\ parseConfig(c).CloudID = ""

\* The call of New reached client.Ping().
ReachedProbe(n) == n.stage \in {"probing", "probe_failed", "ready"}

\* C9 as stated: every call of New with no address and no cloud identifier
\* fails with the config error, and every call with a non-empty address list
\* proceeds to the liveness probe.
C9_NonEmptyAddressesReachProbe ==
    \A i \in 1..Len(newCalls) :
        /\ NoEndpoint(newCalls[i].cfg) => newCalls[i].stage = "config_error"
        /\ Len(parseConfig(newCalls[i].cfg).Addresses) > 0 => ReachedProbe(newCalls[i])

\* C9 amended: every call of New with no address and no cloud identifier fails
\* with the config error; every call with a non-empty address list passes the
\* validation and goes on to client creation, and reaches the liveness probe
\* exactly when elasticsearch.NewClient succeeds.
C9_NonEmptyAddressesPassValidation ==
    /\ [](\A i \in 1..Len(newCalls) :
            LET n == newCalls[i]
                p == parseConfig(n.cfg)
            IN /\ NoEndpoint(n.cfg) => n.stage = "config_error"
               /\ Len(p.Addresses) > 0 =>
                    /\ n.stage # "config_error"
                    /\ ReachedProbe(n) <=> ~NewClientFails(esConfig(p)))
    /\ [][pc = "ensure" /\ provider = Nil /\ NoEndpoint(req.Config) =>
            out' = Append(out, [result |-> None, error |-> Some(ErrNoAddresses)])]_vars

C9_Witness ==
    /\ Len(newCalls) = 3
    /\ newCalls[1].cfg = CfgNumericAddresses /\ newCalls[1].stage = "config_error"
    /\ newCalls[2].cfg = CfgLocalBadCloud /\ newCalls[2].stage = "client_error"
    /\ newCalls[3].cfg = CfgLocal /\ newCalls[3].stage = "probing"
    /\ out[1].error = Some(ErrNoAddresses)

C11_AtMostOneAttemptPerRequest ==
    /\ [](\A i, j \in 1..Len(newCalls) : i < j => newCalls[i].req < newCalls[j].req)
    /\ [](\A i, j \in 1..Len(searches) : i < j => searches[i] < searches[j])
    /\ [][FailedQueryStep => /\ searches' = searches
                             /\ newCalls' = newCalls
                             /\ pc' = "read"]_vars
    /\ [][ConstructionFailedStep =>
            /\ searches' = searches
            /\ Len(newCalls') = Len(newCalls) + (IF pc = "ensure" THEN 1 ELSE 0)
            /\ pc' = "read"]_vars

C11_Witness ==
    /\ pc = "read"
    /\ decoded = 3
    /\ Len(newCalls) = 2
    /\ newCalls[1].req = 1 /\ newCalls[1].stage = "probe_failed"
    /\ newCalls[2].req = 2 /\ newCalls[2].stage = "ready"
    /\ searches = <<2, 3>>
    /\ out[2].error = Some(ErrQueryFailed \o "dial tcp: connection refused")
    /\ IsResultRecord(out[3])

(***************************************************************************)
(* The query builder on its own: a query is drawn from BuildQueries and    *)
(* buildQuery is applied to it MaxBuilds times, each time ranging over     *)
(* query.Metadata in some order.  `req` holds the query, `call.bodies`     *)
(* the documents built so far.                                             *)
(***************************************************************************)
\* Longest filter list of a drawn query.
MaxFilters == 2
\* Largest limit of a drawn query; the smallest is -1.
MaxLimit == 3
\* Number of times the same query is built.
MaxBuilds == 2

\* The structured filters drawn: the four operators and two unknown ones.
FilterPool ==
    { [Field |-> "host", Operator |-> op, Value |-> "web*1"] :
        op \in {"=", "!=", "contains", "regex", "like", ""} }

FilterLists == UNION { [1..n -> FilterPool] : n \in 0..MaxFilters }

Expressions ==
    {None} \cup
    { Some([Search |-> s, SeverityIn |-> sev, Filters |-> fs]) :
        s \in {"", "error OR warning"}, sev \in {<<>>, <<"error", "warn">>},
        fs \in FilterLists }

Scopes == [Service : {"", "api"}, Environment : {"", "prod"}, Team : {"", "sre"}]

Metadatas ==
    { <<>>,
      [k \in {"region"} |-> Str("eu")],
      [k \in {"region", "tier"} |-> IF k = "region" THEN Str("eu") ELSE Num(1)] }

StartTimes == {ZeroTime, [sec |-> 1, nsec |-> 0]}
EndTimes == {ZeroTime, [sec |-> MaxTime, nsec |-> 5]}

\* Every combination of clauses with the default limit, and every limit on an
\* otherwise empty query.
BuildQueries ==
    [ Start : StartTimes, End : EndTimes, Expression : Expressions, Scope : Scopes,
      Metadata : Metadatas, Limit : {0} ]
    \cup { [QueryLimit1 EXCEPT !.Limit = n] : n \in -1..MaxLimit }

InitBuild ==
    /\ pc = "build"
    /\ \E q \in BuildQueries :
         req = [Method |-> "log.query", Config |-> NoConfig,
                Payload |-> [ok |-> TRUE, query |-> q]]
    /\ call = [kind |-> "build", bodies |-> <<>>]
    /\ decoded = 0
    /\ provider = Nil
    /\ prov = Nil
    /\ exitCause = ""
    /\ out = <<>>
    /\ outFor = <<>>
    /\ newCalls = <<>>
    /\ searches = <<>>

\* One call of p.buildQuery(query).
BuildStep ==
    /\ pc = "build"
    /\ Len(call.bodies) < MaxBuilds
    /\ \E order \in MapOrders(DOMAIN req.Payload.query.Metadata) :
         call' = [call EXCEPT !.bodies = Append(@, buildQuery(req.Payload.query, order))]
    /\ UNCHANGED <<pc, req, decoded, provider, prov, exitCause, out, outFor, newCalls, searches>>

NextBuild == BuildStep

BuildSpec == InitBuild /\ [][NextBuild]_vars

\* The query being built, and the clause list of the k-th document built.
BuiltQuery == req.Payload.query
Must(k) == call.bodies[k].query.bool.must

KnownOperators == {"=", "!=", "contains", "regex"}

\* What the clause list of query q is to hold, part by part.
WantRange(q) ==
    IF q.Start # ZeroTime \/ q.End # ZeroTime
    THEN << [range |-> [field |-> "@timestamp",
                        gte |-> IF q.Start # ZeroTime THEN <<FormatRFC3339(q.Start)>> ELSE <<>>,
                        lte |-> IF q.End # ZeroTime THEN <<FormatRFC3339(q.End)>> ELSE <<>>]] >>
    ELSE <<>>
WantSearch(q) ==
    IF q.Expression # None /\ q.Expression[1].Search # ""
    THEN << [query_string |-> [query |-> q.Expression[1].Search]] >> ELSE <<>>
WantSeverity(q) ==
    IF q.Expression # None /\ q.Expression[1].SeverityIn # <<>>
    THEN << [terms |-> [field |-> "severity", values |-> q.Expression[1].SeverityIn]] >>
    ELSE <<>>
KnownFilters(q) ==
    IF q.Expression = None THEN <<>>
    ELSE SelectSeq(q.Expression[1].Filters, LAMBDA f : f.Operator \in KnownOperators)
WantScope(q) ==
    SelectSeq(<< <<"service", q.Scope.Service>>, <<"environment", q.Scope.Environment>>,
                 <<"team", q.Scope.Team>> >>, LAMBDA p : p[2] # "")

\* C12: the clause list of every built document is, in this order: the range
\* clause iff start or end is set (gte iff start, lte iff end), the free-text
\* clause iff search is non-empty, the severity clause iff severityIn is
\* non-empty, one clause per filter with a known operator in input order, one
\* term clause per non-empty scope field in the order service, environment,
\* team, then one term clause per metadata entry.
C12_ClauseListIsTheConcatenation ==
    \A k \in 1..Len(call.bodies) :
        LET q == BuiltQuery
            must == Must(k)
            head == WantRange(q) \o WantSearch(q) \o WantSeverity(q)
            nf == Len(KnownFilters(q))
            ns == Len(WantScope(q))
            nm == Cardinality(DOMAIN q.Metadata)
        IN /\ Len(must) = Len(head) + nf + ns + nm
           /\ SubSeq(must, 1, Len(head)) = head
           /\ \A i \in 1..nf : must[Len(head) + i] = buildFilterClause(KnownFilters(q)[i])[1]
           /\ \A i \in 1..ns :
                must[Len(head) + nf + i] =
                    [term |-> [field |-> WantScope(q)[i][1], value |-> WantScope(q)[i][2]]]
           /\ { must[Len(head) + nf + ns + i] : i \in 1..nm } =
                { [term |-> [field |-> key, value |-> q.Metadata[key]]] :
                    key \in DOMAIN q.Metadata }

C12_Witness ==
    /\ pc = "build"
    /\ Len(call.bodies) = 1
    /\ BuiltQuery.Start = ZeroTime /\ BuiltQuery.End # ZeroTime
    /\ BuiltQuery.Expression # None
    /\ BuiltQuery.Expression[1].Search # ""
    /\ BuiltQuery.Expression[1].SeverityIn # <<>>
    /\ Len(BuiltQuery.Expression[1].Filters) = 2
    /\ BuiltQuery.Expression[1].Filters[1].Operator = "like"
    /\ BuiltQuery.Expression[1].Filters[2].Operator = "!="
    /\ BuiltQuery.Scope = [Service |-> "api", Environment |-> "", Team |-> "sre"]
    /\ Cardinality(DOMAIN BuiltQuery.Metadata) = 2
    /\ Len(Must(1)) = 8

\* C13 as stated: two builds of the same query give the same sequence of
\* clauses.
C13_SameQuerySameClauseSequence ==
    \A i, j \in 1..Len(call.bodies) : Must(i) = Must(j)

\* C13, amended: two builds of the same query give the same number of clauses
\* and the same clauses at every position before the metadata clauses; the
\* metadata clauses, which come last, are the same clauses in possibly
\* different orders.  With at most one metadata entry the sequences are equal.
C13_SameClausesUpToMetadataOrder ==
    \A i, j \in 1..Len(call.bodies) :
        LET nm == Cardinality(DOMAIN BuiltQuery.Metadata)
            fixed == Len(Must(i)) - nm
        IN /\ Len(Must(i)) = Len(Must(j))
           /\ SubSeq(Must(i), 1, fixed) = SubSeq(Must(j), 1, fixed)
           /\ { Must(i)[n] : n \in (fixed + 1)..Len(Must(i)) } =
                { Must(j)[n] : n \in (fixed + 1)..Len(Must(j)) }
           /\ nm <= 1 => Must(i) = Must(j)

C13_Witness ==
    /\ Len(call.bodies) = 2
    /\ Cardinality(DOMAIN BuiltQuery.Metadata) = 2
    /\ BuiltQuery.Scope.Service = "api"
    /\ BuiltQuery.Expression # None
    /\ Must(1) # Must(2)

\* The query q without the i-th structured filter of its expression.
WithoutFilter(q, i) ==
    LET fs == q.Expression[1].Filters
    IN [q EXCEPT !.Expression =
            Some([q.Expression[1] EXCEPT
                    !.Filters = SubSeq(fs, 1, i - 1) \o SubSeq(fs, i + 1, Len(fs))])]

\* The positions of the filters of q whose operator is not one of the four.
UnknownFilterPositions(q) ==
    IF q.Expression = None THEN {}
    ELSE { i \in 1..Len(q.Expression[1].Filters) :
             q.Expression[1].Filters[i].Operator \notin KnownOperators }

\* C14: a filter with an unknown operator adds no clause: every document built
\* has the clause list that buildQuery gives for the same query without that
\* filter (same count, same clauses), and the build yields a document, not an
\* error.
C14_UnknownOperatorAddsNoClause ==
    \A k \in 1..Len(call.bodies) :
        \A i \in UnknownFilterPositions(BuiltQuery) :
            /\ \E order \in MapOrders(DOMAIN BuiltQuery.Metadata) :
                 Must(k) = buildQuery(WithoutFilter(BuiltQuery, i), order).query.bool.must
            /\ Len(Must(k)) =
                 Len(buildQuery(WithoutFilter(BuiltQuery, i),
                                CHOOSE o \in MapOrders(DOMAIN BuiltQuery.Metadata) : TRUE)
                       .query.bool.must)
            /\ DOMAIN call.bodies[k] = {"query", "sort", "size"}

C14_Witness ==
    /\ Len(call.bodies) = 1
    /\ BuiltQuery.Expression # None
    /\ Len(BuiltQuery.Expression[1].Filters) = 2
    /\ BuiltQuery.Expression[1].Filters[1].Operator = "like"
    /\ BuiltQuery.Expression[1].Filters[2].Operator = "contains"
    /\ BuiltQuery.Expression[1].Search = ""
    /\ BuiltQuery.Expression[1].SeverityIn = <<>>
    /\ BuiltQuery.Start = ZeroTime /\ BuiltQuery.End = ZeroTime
    /\ BuiltQuery.Scope = NoScope
    /\ BuiltQuery.Metadata = <<>>
    /\ Must(1) = << [wildcard |-> [field |-> "host", value |-> "*web*1*"]] >>

\* The structured filters of the query being built.
BuiltFilters ==
    IF BuiltQuery.Expression = None THEN <<>> ELSE BuiltQuery.Expression[1].Filters

\* C15: once the query has been built, for each of its filters f:
\* buildFilterClause(f) is non-nil exactly for the operators =, !=, contains,
\* regex; = gives term{field: value}; != gives bool.must_not of that term;
\* contains gives wildcard on "*" + value + "*" with the value as it is (a "*"
\* inside it stays); regex gives regexp on the value as it is.  Every built
\* document has the single combinator bool.must, and the clauses of its list
\* that negate are exactly those of the != filters.
C15_FilterOperatorTranslation ==
    Len(call.bodies) > 0 =>
      /\ \A i \in 1..Len(BuiltFilters) :
           LET f == BuiltFilters[i]
               clause == buildFilterClause(f)
               eq == [term |-> [field |-> f.Field, value |-> f.Value]]
           IN /\ clause # <<>> <=> f.Operator \in {"=", "!=", "contains", "regex"}
              /\ f.Operator = "=" => clause = <<eq>>
              /\ f.Operator = "!=" => clause = << [bool |-> [must_not |-> eq]] >>
              /\ f.Operator = "contains" =>
                   clause = << [wildcard |-> [field |-> f.Field,
                                              value |-> "*" \o f.Value \o "*"]] >>
              /\ f.Operator = "regex" =>
                   clause = << [regexp |-> [field |-> f.Field, value |-> f.Value]] >>
      /\ \A k \in 1..Len(call.bodies) :
           /\ DOMAIN call.bodies[k].query = {"bool"}
           /\ DOMAIN call.bodies[k].query.bool = {"must"}
           /\ Cardinality({ n \in 1..Len(Must(k)) : "bool" \in DOMAIN Must(k)[n] }) =
                Cardinality({ i \in 1..Len(BuiltFilters) : BuiltFilters[i].Operator = "!=" })
           /\ \A n \in 1..Len(Must(k)) :
                DOMAIN Must(k)[n] \subseteq
                    {"range", "query_string", "terms", "term", "wildcard", "regexp", "bool"}

C15_Witness ==
    /\ Len(call.bodies) = 1
    /\ Len(BuiltFilters) = 2
    /\ BuiltFilters[1].Operator = "contains"
    /\ BuiltFilters[2].Operator = "!="
    /\ BuiltQuery.Expression[1].Search = ""
    /\ BuiltQuery.Expression[1].SeverityIn = <<>>
    /\ BuiltQuery.Start = ZeroTime /\ BuiltQuery.End = ZeroTime
    /\ BuiltQuery.Scope.Service = "api"
    /\ Must(1)[1] = [wildcard |-> [field |-> "host", value |-> "*web*1*"]]
    /\ Must(1)[2] = [bool |-> [must_not |-> [term |-> [field |-> "host", value |-> "web*1"]]]]
    /\ Must(1)[3] = [term |-> [field |-> "service", value |-> "api"]]

\* C16: every built document has size = limit when the limit is positive and
\* 1000 when it is zero or negative, and sorts by @timestamp descending.
C16_SizeAndSort ==
    \A k \in 1..Len(call.bodies) :
        /\ BuiltQuery.Limit > 0 => call.bodies[k].size = BuiltQuery.Limit
        /\ BuiltQuery.Limit <= 0 => call.bodies[k].size = 1000
        /\ call.bodies[k].sort = << [field |-> "@timestamp", order |-> "desc"] >>

C16_Witness ==
    /\ Len(call.bodies) = 2
    /\ BuiltQuery.Limit = -1
    /\ call.bodies[1].size = 1000
    /\ call.bodies[2].size = 1000

(***************************************************************************)
(* Query on its own, against a backend that holds the matching documents   *)
(* `call.matching`: a provider is ready, a query with some limit is drawn, *)
(* and one step runs the whole of Query and writes its response.           *)
(***************************************************************************)
\* Largest number of documents matching a query.
MaxDocs == 4

\* A document with no @timestamp.
HitC ==
    [ Index |-> "logs-2024", ID |-> "c", Score |-> 0,
      Source |-> [k \in {"message"} |-> Str("undated")] ]

HitPool == {HitA, HitB, HitC}

MatchingLists == UNION { [1..n -> HitPool] : n \in 0..MaxDocs }

ReadyProvider ==
    [ cfg |-> parseConfig(CfgLocal),
      client |-> [id |-> 1, cfg |-> esConfig(parseConfig(CfgLocal))] ]

InitQuery ==
    /\ pc = "query"
    /\ \E n \in -1..MaxLimit :
         req = [Method |-> "log.query", Config |-> CfgLocal,
                Payload |-> [ok |-> TRUE, query |-> [QueryLimit1 EXCEPT !.Limit = n]]]
    /\ \E docs \in MatchingLists : call = [kind |-> "backend", matching |-> docs]
    /\ decoded = 1
    /\ provider = ReadyProvider
    /\ prov = ReadyProvider
    /\ exitCause = ""
    /\ out = <<>>
    /\ outFor = <<>>
    /\ newCalls = <<>>
    /\ searches = <<>>

\* The call of p.client.Search that Query makes on provider p, the backend
\* answering with outcome o.
SearchCall(p, query, order, o) ==
    [ kind |-> "search", ctx |-> Background, client |-> p.client,
      index |-> p.cfg.IndexPattern, body |-> buildQuery(query, order), outcome |-> o ]

\* prov.Query(ctx, query) from its call to its return, and main's write of
\* what it returned.  `kind` is how the backend answers this search.
QueryStep(kind) ==
    /\ pc = "query"
    /\ \E order \in MapOrders(DOMAIN req.Payload.query.Metadata) :
         LET o == IF kind = "ok" THEN [kind |-> "ok", matching |-> call.matching]
                  ELSE [kind |-> kind, detail |-> "backend failure"]
             c == SearchCall(prov, req.Payload.query, order, o)
             r == QueryReturn(SearchResult(c))
         IN /\ call' = c
            /\ out' = Append(out, write(r.res, r.err))
    /\ pc' = "done"
    /\ outFor' = Append(outFor, decoded)
    /\ searches' = Append(searches, decoded)
    /\ UNCHANGED <<req, decoded, provider, prov, exitCause, newCalls>>

NextQuery == \E kind \in {"ok", "transport_error", "error_status", "bad_body"} : QueryStep(kind)

QuerySpec == InitQuery /\ [][NextQuery]_vars

\* Query has returned without error.
QuerySucceeded == pc = "done" /\ call.outcome.kind = "ok"

\* The entries of the response written.
Entries == out[1].result[1]

\* C17: a successful Query with a positive limit returns the first `limit`
\* matching documents when there are at least `limit` of them and all of them
\* otherwise (3 of 3 or more under limit 3, 1 of 1); it never returns more
\* than `limit` entries.
C17_LimitEnforced ==
    QuerySucceeded /\ req.Payload.query.Limit > 0 =>
        LET limit == req.Payload.query.Limit
            n == Len(call.outcome.matching)
        IN /\ IsResultRecord(out[1])
           /\ Len(Entries) <= limit
           /\ n >= limit => Len(Entries) = limit
           /\ n < limit => Len(Entries) = n
           /\ limit = 3 /\ n >= 3 => Len(Entries) = 3
           /\ limit = 3 /\ n = 1 => Len(Entries) = 1

C17_Witness ==
    /\ QuerySucceeded
    /\ req.Payload.query.Limit = 3
    /\ call.body.size = 3
    /\ Len(call.outcome.matching) = 4
    /\ Len(Entries) = 3
    /\ Entries[3].Metadata._id = call.outcome.matching[3].ID

\* The hits of the backend's response to the search issued.
ReturnedHits == BackendHits(call.body, call.outcome.matching)

\* The hit has no @timestamp that time.Parse accepts.
Undated(hit) ==
    \/ "@timestamp" \notin DOMAIN hit.Source
    \/ hit.Source["@timestamp"].t # "string"
    \/ \A w \in WireTimes : w[1] # hit.Source["@timestamp"].s

\* C18: a successful Query writes a result with one entry per hit of the
\* response, in the response's order: entry i carries the identity of hit i
\* and is its normalization.  A hit whose @timestamp is absent or unparsable
\* is kept and has the zero timestamp; no hits give the empty result, without
\* error.
C18_OneEntryPerHitInOrder ==
    QuerySucceeded =>
        /\ IsResultRecord(out[1])
        /\ Len(Entries) = Len(ReturnedHits)
        /\ \A i \in 1..Len(ReturnedHits) :
             /\ Entries[i].Metadata._id = ReturnedHits[i].ID
             /\ Entries[i] = normalizeHit(ReturnedHits[i])
             /\ Undated(ReturnedHits[i]) => Entries[i].Timestamp = ZeroTime
        /\ ReturnedHits = <<>> => out[1] = [result |-> Some(<<>>), error |-> None]

C18_Witness ==
    /\ QuerySucceeded
    /\ req.Payload.query.Limit = 0
    /\ ReturnedHits = <<HitC, HitA, HitB>>
    /\ Len(Entries) = 3
    /\ Entries[1].Timestamp = ZeroTime /\ Entries[1].Message = "undated"
    /\ Entries[2].Timestamp = [sec |-> 1, nsec |-> 0]
    /\ Entries[3].Timestamp = ZeroTime /\ Entries[3].Severity = "error"

(***************************************************************************)
(* normalizeHit on its own: one hit is drawn from HitSources, `call.hit`,  *)
(* and one step normalizes it into `out`.                                  *)
(***************************************************************************)
HitKeys == {"@timestamp", "message", "severity", "level", "service", "host", "tags"}

\* The map holding the entries of v that are not Absent.
Present(v) == [k \in {x \in DOMAIN v : v[x] # Absent} |-> v[k]]

\* _source maps: each well-known field absent, a string or another JSON
\* value; two further fields.
HitSources ==
    { Present([k \in HitKeys |->
                 CASE k = "@timestamp" -> ts
                   [] k = "message" -> msg
                   [] k = "severity" -> sev
                   [] k = "level" -> lvl
                   [] k = "service" -> svc
                   [] k = "host" -> host
                   [] k = "tags" -> tags]) :
        ts \in {Absent, Str("T1Z"), Str("yesterday"), Num(1)},
        msg \in {Absent, Str("boom"), Num(7)},
        sev \in {Absent, Str("error"), Str(""), Num(3)},
        lvl \in {Absent, Str("warn"), Num(4)},
        svc \in {Absent, Str("api")},
        host \in {Absent, Str("web-1"), Num(9)},
        tags \in {Absent, Str("x"), List(<<"a", "b">>)} }

InitHit ==
    /\ pc = "normalize"
    /\ \E source \in HitSources :
         call = [kind |-> "hit",
                 hit |-> [Index |-> "logs-2024", ID |-> "h", Score |-> 1, Source |-> source]]
    /\ req = Nil
    /\ decoded = 0
    /\ provider = Nil
    /\ prov = Nil
    /\ exitCause = ""
    /\ out = <<>>
    /\ outFor = <<>>
    /\ newCalls = <<>>
    /\ searches = <<>>

\* One call of p.normalizeHit(hit).
NormalizeStep ==
    /\ pc = "normalize"
    /\ out' = Append(out, normalizeHit(call.hit))
    /\ pc' = "done"
    /\ UNCHANGED <<req, decoded, provider, prov, call, exitCause, outFor, newCalls, searches>>

NextHit == NormalizeStep

HitSpec == InitHit /\ [][NextHit]_vars

\* The hit has been normalized: its _source and the entry made of it.
Normalized == pc = "done" /\ call.kind = "hit"
Source == call.hit.Source

\* C19: in the entry of a normalized hit: with a level field and no severity
\* field the severity is the level's; with both fields the severity field
\* wins (the entry has its value, never the level's); with neither the
\* severity is empty.
C19_SeverityWinsOverLevel ==
    Normalized =>
        LET hasSev == "severity" \in DOMAIN Source
            hasLvl == "level" \in DOMAIN Source
        IN /\ hasLvl /\ ~hasSev /\ IsStr(Source["level"]) =>
                out[1].Severity = Source["level"].s
           /\ hasSev /\ hasLvl /\ IsStr(Source["severity"]) =>
                out[1].Severity = Source["severity"].s
           /\ hasSev /\ hasLvl /\ IsStr(Source["level"]) =>
                out[1].Severity # Source["level"].s
           /\ ~hasSev /\ ~hasLvl => out[1].Severity = ""

\* The names of the fields promoted to attributes of the entry, with `level`,
\* the second source of the severity.
PromotedNames == {"@timestamp", "message", "severity", "level", "service"}

\* C20: in the entry of a normalized hit, every key of Labels is a key of
\* Fields holding the same string; the keys of Labels are exactly the keys of
\* Fields whose value is a string; neither map has a promoted name as a key.
C20_FieldPartition ==
    Normalized =>
        LET labels == out[1].Labels
            fields == out[1].Fields
        IN /\ \A k \in DOMAIN labels :
                /\ k \in DOMAIN fields
                /\ fields[k] = [t |-> "string", s |-> labels[k]]
           /\ DOMAIN labels = { k \in DOMAIN fields : fields[k].t = "string" }
           /\ DOMAIN labels \cap PromotedNames = {}
           /\ DOMAIN fields \cap PromotedNames = {}

C20_Witness ==
    /\ Normalized
    /\ DOMAIN Source = {"@timestamp", "message", "severity", "level", "service", "host", "tags"}
    /\ Source["host"] = Str("web-1")
    /\ Source["tags"] = List(<<"a", "b">>)
    /\ DOMAIN out[1].Labels = {"host"}
    /\ out[1].Labels["host"] = "web-1"
    /\ DOMAIN out[1].Fields = {"host", "tags"}

\* The value of the source field `key` can be read from the entry: from
\* Fields, or from the attribute the field is promoted to.
Available(key) ==
    \/ key \in DOMAIN out[1].Fields /\ out[1].Fields[key] = Source[key]
    \/ /\ IsStr(Source[key])
       /\ \/ key = "message" /\ out[1].Message = Source[key].s
          \/ key \in {"severity", "level"} /\ out[1].Severity = Source[key].s
          \/ key = "service" /\ out[1].Service = Source[key].s
          \/ key = "@timestamp" /\ Some(out[1].Timestamp) = ParseRFC3339(Source[key].s)

\* C21: in the entry of a normalized hit, every source field other than the
\* promoted ones (@timestamp, message, severity with its stand-in level,
\* service) is in Fields with its original value, and the value of every
\* source field can be read from the entry, from Fields or from the attribute
\* it is promoted to.
C21_NoSourceValueDropped ==
    Normalized =>
        /\ \A key \in DOMAIN Source \ {"@timestamp", "message", "severity", "level", "service"} :
             key \in DOMAIN out[1].Fields /\ out[1].Fields[key] = Source[key]
        /\ \A key \in DOMAIN Source : Available(key)

\* C22: every entry of a successful Query has as Metadata exactly the three
\* keys _index, _id, _score with the index, document id and score of its hit,
\* and its Fields and Labels hold keys of the hit's _source only: the
\* provenance is copied into neither.
C22_ProvenanceInMetadataOnly ==
    QuerySucceeded =>
        \A i \in 1..Len(ReturnedHits) :
            LET hit == ReturnedHits[i]
                entry == Entries[i]
            IN /\ DOMAIN entry.Metadata = {"_index", "_id", "_score"}
               /\ entry.Metadata["_index"] = hit.Index
               /\ entry.Metadata["_id"] = hit.ID
               /\ entry.Metadata["_score"] = hit.Score
               /\ DOMAIN entry.Fields \subseteq DOMAIN hit.Source
               /\ DOMAIN entry.Labels \subseteq DOMAIN hit.Source
               /\ {"_index", "_id", "_score"} \cap
                    (DOMAIN entry.Fields \cup DOMAIN entry.Labels) = {}

C22_Witness ==
    /\ QuerySucceeded
    /\ ReturnedHits = <<HitB, HitA>>
    /\ Entries[1].Metadata = [_index |-> "logs-2024", _id |-> "b", _score |-> 2]
    /\ Entries[2].Metadata._id = "a"
    /\ DOMAIN Entries[2].Fields = {"host", "code"}
    /\ DOMAIN Entries[2].Labels = {"host"}

(***************************************************************************)
(* New on its own: a config map is drawn from ConfigInputs, one step runs  *)
(* the whole of adapter.New against a backend that answers the probe with  *)
(* `ping`, and main writes the error or goes on to one Query.              *)
(***************************************************************************)
\* Config maps: each key absent, a string, or a value of another type.
ConfigInputs ==
    { [k \in ConfigKeys |->
         CASE k = "addresses" -> addrs
           [] k = "username" -> user
           [] k = "password" -> pw
           [] k = "apiKey" -> key
           [] k = "cloudID" -> cloud
           [] k = "indexPattern" -> pattern] :
        addrs \in { Absent, List(<<>>), Str("http://es-1:9200"),
                    List(<<Str("http://es-2:9200"), Num(9200), Str("http://es-1:9200")>>),
                    List(<<Str("http://es-1:9200"), Str("http://[bad")>>) },
        user \in {Absent, Str("elastic")},
        pw \in {Absent, Str("changeme"), Str("hunter2")},
        key \in {Absent, Str(""), Str("id:key")},
        cloud \in {Absent, Str("my-cloud:dXMtY2VudHJhbDE"), Str("not-a-cloud-id")},
        pattern \in {Absent, Str(""), Str("app-*"), Num(7)} }

\* adapter.New(cfg) against a backend answering the probe with `ping`: the
\* parsed config, the client config when NewClient was reached, the provider
\* (Nil on failure) and the error (None for nil).
NewReturn(cfg, ping) ==
    LET parsed == parseConfig(cfg)
        esCfg == esConfig(parsed)
    IN IF ConfigRejected(parsed)
       THEN [parsed |-> parsed, esCfg |-> None, prov |-> Nil, err |-> Some(ErrNoAddresses)]
       ELSE IF NewClientFails(esCfg)
       THEN [parsed |-> parsed, esCfg |-> Some(esCfg), prov |-> Nil,
             err |-> Some(ErrCreateClient \o NewClientError(esCfg))]
       ELSE IF PingFailed(ping)
       THEN [parsed |-> parsed, esCfg |-> Some(esCfg), prov |-> Nil,
             err |-> Some(ErrConnect \o ping.detail)]
       ELSE [parsed |-> parsed, esCfg |-> Some(esCfg),
             prov |-> [cfg |-> parsed, client |-> [id |-> 1, cfg |-> esCfg]],
             err |-> None]

InitNew ==
    /\ pc = "new"
    /\ \E cfg \in ConfigInputs :
         req = [Method |-> "log.query", Config |-> cfg,
                Payload |-> [ok |-> TRUE, query |-> QueryLimit1]]
    /\ call = NoCall
    /\ decoded = 1
    /\ provider = Nil
    /\ prov = Nil
    /\ exitCause = ""
    /\ out = <<>>
    /\ outFor = <<>>
    /\ newCalls = <<>>
    /\ searches = <<>>

\* ensureProvider on the first request: adapter.New(req.Config), and main's
\* writeErr when it fails.
NewStep(ping) ==
    /\ pc = "new"
    /\ LET r == NewReturn(req.Config, ping)
       IN /\ call' = [kind |-> "new", ping |-> ping, parsed |-> r.parsed,
                      esCfg |-> r.esCfg, err |-> r.err, matching |-> <<HitA>>]
          /\ provider' = r.prov
          /\ prov' = r.prov
          /\ IF r.err # None
             THEN /\ out' = Append(out, writeErr(r.err[1]))
                  /\ outFor' = Append(outFor, decoded)
                  /\ pc' = "failed"
             ELSE /\ pc' = "query"
                  /\ UNCHANGED <<out, outFor>>
    /\ newCalls' = Append(newCalls, NewCall("returned"))
    /\ UNCHANGED <<req, decoded, exitCause, searches>>

NextNew ==
    \/ \E ping \in PingOutcomes \ {[kind |-> "hang"]} : NewStep(ping)
    \/ \E kind \in {"ok", "transport_error", "error_status", "bad_body"} : QueryStep(kind)

NewSpec == InitNew /\ [][NextNew]_vars

\* New has returned for the config map of the request.
NewReturned == pc \in {"query", "failed"} /\ call.kind = "new"

\* The string the config map holds under `key`, "" when it holds none.
Given(key) == IF req.Config[key].t = "string" THEN req.Config[key].s ELSE ""

\* The config map holds a list of addresses with a string in it.
GivenAddresses ==
    /\ req.Config["addresses"].t = "list"
    /\ \E i \in 1..Len(req.Config["addresses"].items) :
         req.Config["addresses"].items[i].t = "string"

\* C23: a config with an API key is not rejected for also carrying username
\* or password, and the client config holds the API key and neither username
\* nor password; a config with a cloud identifier is not rejected for also
\* carrying addresses, and the client config holds the cloud identifier and
\* no address.  With both pairs supplied, a parsable cloud identifier and an
\* answering backend, New returns a provider whose client was given exactly
\* the cloud identifier and the API key.
C23_ApiKeyAndCloudIDTakePrecedence ==
    NewReturned =>
        /\ Given("cloudID") # "" \/ GivenAddresses => call.esCfg # None
        /\ call.esCfg # None /\ Given("apiKey") # "" =>
             /\ call.esCfg[1].APIKey = Given("apiKey")
             /\ call.esCfg[1].Username = ""
             /\ call.esCfg[1].Password = ""
        /\ call.esCfg # None /\ Given("cloudID") # "" =>
             /\ call.esCfg[1].CloudID = Given("cloudID")
             /\ call.esCfg[1].Addresses = <<>>
        /\ /\ Given("apiKey") # "" /\ Given("username") # "" /\ Given("password") # ""
           /\ Given("cloudID") = "my-cloud:dXMtY2VudHJhbDE" /\ GivenAddresses
           /\ call.ping.kind # "transport_error"
           => /\ pc = "query"
              /\ provider.client.cfg =
                   [ CloudID |-> Given("cloudID"), Addresses |-> <<>>,
                     APIKey |-> Given("apiKey"), Username |-> "", Password |-> "" ]

C23_Witness ==
    /\ pc = "query" /\ call.kind = "new"
    /\ Given("apiKey") = "id:key"
    /\ Given("username") = "elastic" /\ Given("password") = "hunter2"
    /\ Given("cloudID") = "my-cloud:dXMtY2VudHJhbDE"
    /\ req.Config["addresses"] = List(<<Str("http://es-1:9200"), Str("http://[bad")>>)
    /\ provider.client.cfg =
         [ CloudID |-> "my-cloud:dXMtY2VudHJhbDE", Addresses |-> <<>>,
           APIKey |-> "id:key", Username |-> "", Password |-> "" ]

\* The strings of the address list of the config map, in its order.
GivenAddressList ==
    IF req.Config["addresses"].t # "list" THEN <<>>
    ELSE LET strings == SelectSeq(req.Config["addresses"].items, LAMBDA v : v.t = "string")
         IN [i \in 1..Len(strings) |-> strings[i].s]

\* C24: whatever the config map, parseConfig returns a Config (the only error
\* New returns before it creates the client is the validation's), in which IndexPattern is the map's indexPattern when that
\* is a non-empty string and "logs-*" when it is absent or empty; Username,
\* Password, APIKey and CloudID are the map's strings unchanged; Addresses
\* holds the strings of the map's address list in its order, the other
\* entries skipped.
C24_ParseConfig ==
    NewReturned =>
        /\ DOMAIN call.parsed =
             {"Addresses", "Username", "Password", "APIKey", "CloudID", "IndexPattern"}
        /\ call.esCfg = None => call.err = <<"either 'addresses' or 'cloudID' must be provided">>
        /\ Given("indexPattern") # "" => call.parsed.IndexPattern = Given("indexPattern")
        /\ req.Config["indexPattern"] \in {Absent, Str("")} =>
             call.parsed.IndexPattern = "logs-*"
        /\ call.parsed.Username = Given("username")
        /\ call.parsed.Password = Given("password")
        /\ call.parsed.APIKey = Given("apiKey")
        /\ call.parsed.CloudID = Given("cloudID")
        /\ call.parsed.Addresses = GivenAddressList

C24_Witness ==
    /\ NewReturned
    /\ req.Config["addresses"] =
         List(<<Str("http://es-2:9200"), Num(9200), Str("http://es-1:9200")>>)
    /\ req.Config["indexPattern"] = Str("")
    /\ req.Config["password"] = Str("hunter2")
    /\ req.Config["cloudID"] = Absent
    /\ call.parsed.Addresses = <<"http://es-2:9200", "http://es-1:9200">>
    /\ call.parsed.IndexPattern = "logs-*"
    /\ call.parsed.Password = "hunter2"
    /\ call.parsed.CloudID = ""

\* The config maps that differ from the request's at most in password and
\* apiKey.
SecretVariants ==
    { [req.Config EXCEPT !["password"] = pw, !["apiKey"] = key] :
        pw \in {Absent, Str("changeme"), Str("hunter2")},
        key \in {Absent, Str(""), Str("id:key")} }

\* C25: the error text does not depend on password or apiKey.  When New has
\* failed, New fails with the same text for every config that differs only in
\* the two and the same answer to the probe, and the response written carries
\* that text; when Query has failed, Query on the provider built from any
\* such config, with the same answer of the backend, gives the same error
\* response.
C25_ErrorTextIndependentOfSecrets ==
    /\ pc = "failed" =>
         /\ out = << [result |-> None, error |-> call.err] >>
         /\ \A other \in SecretVariants : NewReturn(other, call.ping).err = call.err
    /\ pc = "done" /\ newCalls # <<>> /\ call.outcome.kind # "ok" =>
         /\ IsErrorRecord(out[1])
         /\ \A other \in SecretVariants :
              LET p == NewReturn(other, [kind |-> "ok"]).prov
                  r == QueryReturn(SearchResult(
                         SearchCall(p, req.Payload.query, <<>>, call.outcome)))
              IN p # Nil /\ write(r.res, r.err) = out[1]

C25_Witness ==
    /\ pc = "failed"
    /\ req.Config["password"] = Str("hunter2")
    /\ req.Config["username"] = Str("elastic")
    /\ req.Config["apiKey"] = Absent
    /\ call.esCfg # None
    /\ call.esCfg[1].Password = "hunter2"
    /\ out[1].error = Some("failed to create Elasticsearch client: "
                           \o "cannot create client: cannot parse url: http://[bad")

\* The error texts with which adapter.New can fail on the configs of Configs.
ConstructionErrors ==
    {ErrNoAddresses}
    \cup { ErrCreateClient \o NewClientError(esConfig(parseConfig(c))) :
             c \in { x \in Configs : NewClientFails(esConfig(parseConfig(x))) } }
    \cup { ErrConnect \o o.detail : o \in { x \in PingOutcomes : x.kind = "transport_error" } }

\* C26: once the provider is ready, ensureProvider hands it out whatever the
\* config of the request: no call of New, no record written, the provider
\* unchanged; every search goes to the client and index pattern built from the
\* config of the request that constructed the provider; and no record written
\* while a provider exists carries a construction error.
C26_LaterConfigHasNoEffect ==
    /\ [][pc = "ensure" /\ provider # Nil =>
            /\ pc' = "dispatch"
            /\ prov' = provider
            /\ provider' = provider
            /\ newCalls' = newCalls
            /\ out' = out]_vars
    /\ [](pc = "search" =>
            /\ call.client = provider.client
            /\ call.index = provider.cfg.IndexPattern
            /\ provider.cfg = parseConfig(newCalls[Len(newCalls)].cfg)
            /\ provider.client.cfg = esConfig(parseConfig(newCalls[Len(newCalls)].cfg)))
    /\ [][provider # Nil /\ out' # out =>
            /\ Len(out') = Len(out) + 1
            /\ \A e \in ConstructionErrors : out'[Len(out')].error # Some(e)]_vars

C26_Witness ==
    /\ pc = "search"
    /\ decoded = 3
    /\ Len(newCalls) = 1 /\ newCalls[1].req = 1 /\ newCalls[1].cfg = CfgLocal
    /\ outFor = <<1, 2>>
    /\ IsResultRecord(out[2])
    /\ req.Config = CfgCloud
    /\ call.index = "logs-*"
    /\ call.client.cfg.Addresses = <<"http://localhost:9200">>
    /\ call.client.cfg.CloudID = ""

\* The request being handled names a method other than log.query.
UnknownMethod == req # Nil /\ req.Method # "log.query"

\* C27: construction comes before the method: the method is examined only
\* with a provider in hand; a request that finds no provider leads to a call
\* of New with its config whatever its method, and to the liveness probe when
\* the client can be created; a failed construction for a request with an
\* unknown method is answered with the construction error; and the step that
\* answers "unknown method" leaves in place the provider that the request may
\* itself have caused to be built.
C27_ConstructionBeforeMethod ==
    /\ [](pc = "dispatch" => provider # Nil /\ prov = provider)
    /\ [][pc = "ensure" /\ provider = Nil =>
            /\ Len(newCalls') = Len(newCalls) + 1
            /\ SubSeq(newCalls', 1, Len(newCalls)) = newCalls
            /\ newCalls'[Len(newCalls')].req = decoded
            /\ newCalls'[Len(newCalls')].cfg = req.Config
            /\ pc' = "ping" <=> ~NoEndpoint(req.Config)
                                /\ ~NewClientFails(esConfig(parseConfig(req.Config)))]_vars
    /\ [][ConstructionFailedStep /\ UnknownMethod =>
            /\ WroteOne
            /\ out'[Len(out')].result = None
            /\ \E e \in ConstructionErrors : out'[Len(out')].error = Some(e)
            /\ provider' = Nil]_vars
    /\ [][pc = "dispatch" /\ UnknownMethod =>
            /\ WroteOne
            /\ out'[Len(out')] = [result |-> None, error |-> Some("unknown method: " \o req.Method)]
            /\ provider' = provider
            /\ provider # Nil]_vars

C27_Witness ==
    /\ pc = "read"
    /\ decoded = 2
    /\ searches = <<>>
    /\ Len(newCalls) = 2
    /\ newCalls[1].req = 1 /\ newCalls[1].stage = "probe_failed"
    /\ newCalls[2].req = 2 /\ newCalls[2].stage = "ready" /\ newCalls[2].probe = "ok"
    /\ out[1].error = Some(ErrConnect \o "dial tcp: connection refused")
    /\ out[2].error = Some("unknown method: log.tail")
    /\ provider # Nil /\ provider.client.id = 2

====
